---- MODULE Spec2Model ----
(***************************************************************************)
(* A model of clause-code's file pipeline (utils/file_writer.py) and of    *)
(* its configuration store (utils/config.py):                              *)
(*   FileExtractor.extract_files  - the marker/fence regular expression,   *)
(*                                  run over a response character by       *)
(*                                  character, with strip() and the        *)
(*                                  seen_files de-duplication;             *)
(*   FileExtractor.write_files    - the per-record loop over a small file  *)
(*                                  system (directories, files, one        *)
(*                                  symlink, paths that deny permission);  *)
(*   ConfigManager                - load, save and the set_* methods over  *)
(*                                  config.json, the .api_key file and the *)
(*                                  ANTHROPIC_API_KEY environment variable.*)
(* A text is a sequence of characters. The three characters TLA+ strings   *)
(* cannot hold are named: NL (newline), BT (backtick), SP (space). The     *)
(* literals "**File:" and "**" of the pattern are one token each.          *)
(***************************************************************************)
EXTENDS Integers, Sequences, FiniteSets, TLC

VARIABLES
    response,       \* extract_files: the response text
    pos,            \* extract_files: where re.finditer resumes scanning
    files,          \* the record list (built by extract_files, read by write_files)
    seen_files,     \* extract_files: paths already recorded
    ex_pc,          \* extract_files: "idle" | "scan" | "returned"
    chunks,         \* how the response was assembled (input bookkeeping only)
    fs_dirs,        \* the file system: the directories (absolute paths)
    fs_files,       \* the file system: regular files, path -> content
    overwrite,      \* write_files: the overwrite argument
    safe_mode,      \* write_files: the safe_mode argument
    idx,            \* write_files: index of the record the loop handles next
    created_files,  \* write_files: the list it returns
    console,        \* the lines printed on the console by the current call
    wr_pc,          \* write_files: "idle" | "loop" | "returned" | "raised"
    run,            \* how many write_files calls were started on this batch
    prev,           \* what the previous call on this batch returned and left on disk
    config_file,    \* config.json: {} when missing, else {the JSON object}
    api_key_file,   \* .api_key: {} when missing, else {its text}
    env_api_key,    \* os.getenv("ANTHROPIC_API_KEY")
    cached_config,  \* ConfigManager._config: {} for None, else {the ClauseConfig}
    saved_config,   \* the argument of the latest save on the directory ({} before)
    fresh_config,   \* what load returned in a new ConfigManager ({} when not called
                    \* since the latest save)
    objects,        \* how many ClauseConfig instances the manager and its callers made
    loads,          \* what the manager's load calls returned since the latest save
                    \* (the last two)
    agent_model,    \* ClaudeAgent.model
    agent_festive_mode, \* ClaudeAgent.festive_mode
    command_line,   \* the line handle_command was last called with
    handled,        \* how that call ended: "none" | "True" | "False" | "raised"
    getpass_in,     \* what getpass gave the latest /setkey
    cli_before,     \* configuration and agent settings before the latest command
    cli_pc,         \* the chat loop: "idle" | "prompt" | "exited" | "fatal"
    conversation_history, \* ClaudeAgent.conversation_history
    message,        \* ClaudeAgent.chat: the message of the latest call
    full_response,  \* ClaudeAgent.chat: the text chunks the stream gave so far
    cli_response,   \* chat_loop: full_response, the chunks agent.chat yielded
    history_before, \* conversation_history when the latest chat call was made
    outcome,        \* the latest chat call: "none" | "running" | "complete" |
                    \* "request_failed" | "stream_failed" | "cancelled"
    chats,          \* how many chat calls were made
    chat_pc         \* "idle" | "prompt" | "request" | "streaming" | "ended" | "files"

exVars == <<response, pos, seen_files, ex_pc, chunks>>
wrVars == <<fs_dirs, fs_files, overwrite, safe_mode, idx, created_files, console,
            wr_pc, run, prev>>
cfVars == <<config_file, api_key_file, env_api_key, cached_config, saved_config,
            fresh_config, objects, loads>>
agVars == <<agent_model, agent_festive_mode>>
cliVars == <<command_line, handled, getpass_in, cli_before, cli_pc>>
chVars == <<conversation_history, message, full_response, cli_response, history_before,
            outcome, chats, chat_pc>>
vars == <<files, exVars, wrVars, cfVars, agVars, cliVars, chVars>>

(***************************************************************************)
(* Characters                                                              *)
(***************************************************************************)
NL == "NL"
BT == "BT"
SP == "SP"
MK == "**File:"
EM == "**"

WS == {SP, NL}
WordChars == {"a", "b", "d", "p", "x", "y", "t", "e"}

Min(S) == CHOOSE m \in S : \A k \in S : m <= k
Max(S) == CHOOSE m \in S : \A k \in S : m >= k

\* First position >= i whose character is not in S (Len(s)+1 when none).
SkipIn(s, i, S) ==
    Min({j \in i..(Len(s) + 1) : j = Len(s) + 1 \/ s[j] \notin S})

\* First position >= i whose character is c (Len(s)+1 when none).
SkipTo(s, i, c) ==
    Min({j \in i..(Len(s) + 1) : j = Len(s) + 1 \/ s[j] = c})

\* Three backticks at position i.
IsFence(s, i) ==
    /\ i >= 1
    /\ i + 2 <= Len(s)
    /\ s[i] = BT /\ s[i + 1] = BT /\ s[i + 2] = BT

(***************************************************************************)
(* str.strip(): all leading and all trailing whitespace removed.           *)
(***************************************************************************)
Strip(t) ==
    LET a == SkipIn(t, 1, WS)
    IN  IF a > Len(t) THEN <<>>
        ELSE SubSeq(t, a, Max({j \in a..Len(t) : t[j] \notin WS}))

(***************************************************************************)
(* The pattern of extract_files, matched at position i of s:               *)
(*   \*\*File:\s*`([^`]+)`\*\*\s*\n```(\w+)?\n(.*?)\n```     (re.DOTALL)   *)
(* Every quantifier of the pattern has one way to succeed, so the match    *)
(* at a position is computed left to right.                                *)
(***************************************************************************)
NoMatch == [ok |-> FALSE]

\* Variant: a greedy body, (.*)\n``` , runs to the last newline-fence.
BodyEndGreedy(s, b) ==
    LET ends == {c \in b..Len(s) : s[c] = NL /\ IsFence(s, c + 1)}
    IN  IF ends = {} THEN 0 ELSE Max(ends)

\* Variant: a fence that is never closed runs to the end of the text.
BodyEndOrEof(s, b) ==
    LET ends == {c \in b..Len(s) : s[c] = NL /\ IsFence(s, c + 1)}
    IN  IF ends = {} THEN Len(s) + 1 ELSE Min(ends)

\* (.*?)\n``` : the body runs to the nearest newline-fence at or after b
\* (0 when there is none).
BodyEnd(s, b) ==
    LET ends == {c \in b..Len(s) : s[c] = NL /\ IsFence(s, c + 1)}
    IN  IF ends = {} THEN 0 ELSE Min(ends)

MatchAt(s, i) ==
    IF ~(i >= 1 /\ i <= Len(s) /\ s[i] = MK) THEN NoMatch ELSE
    LET q1 == SkipIn(s, i + 1, WS) IN                       \* \s*
    IF ~(q1 <= Len(s) /\ s[q1] = BT) THEN NoMatch ELSE      \* `
    LET q2 == SkipTo(s, q1 + 1, BT) IN                      \* ([^`]+)`
    IF ~(q2 > q1 + 1 /\ q2 <= Len(s)) THEN NoMatch ELSE
    IF ~(q2 + 1 <= Len(s) /\ s[q2 + 1] = EM) THEN NoMatch ELSE   \* \*\*
    LET q3 == SkipIn(s, q2 + 2, WS) IN                      \* \s*\n
    IF ~(q3 > q2 + 2 /\ s[q3 - 1] = NL /\ IsFence(s, q3)) THEN NoMatch ELSE
    LET q4 == SkipIn(s, q3 + 3, WordChars) IN               \* (\w+)?
    IF ~(q4 <= Len(s) /\ s[q4] = NL) THEN NoMatch ELSE      \* \n
    LET c == BodyEnd(s, q4 + 1) IN                          \* (.*?)\n```
    IF c = 0 THEN NoMatch ELSE
    [ok      |-> TRUE,
     start   |-> i,
     end     |-> c + 4,
     group1  |-> SubSeq(s, q1 + 1, q2 - 1),
     has2    |-> q4 > q3 + 3,
     group2  |-> SubSeq(s, q3 + 3, q4 - 1),
     group3  |-> SubSeq(s, q4 + 1, c - 1)]

\* re.finditer: the leftmost match starting at or after p.
NextMatch(s, p) ==
    LET starts == {i \in p..Len(s) : MatchAt(s, i).ok}
    IN  IF starts = {} THEN NoMatch ELSE MatchAt(s, Min(starts))

(***************************************************************************)
(* Responses: up to MaxChunks chunks, one per line group, joined by NL.    *)
(***************************************************************************)
MaxChunks == 2

Fence == <<BT, BT, BT>>
Marker(path) == <<MK, SP, BT>> \o path \o <<BT, EM>>
Block(path, lang, body) ==
    Marker(path) \o <<NL>> \o Fence \o lang \o <<NL>> \o body \o <<NL>> \o Fence

PathA == <<"a">>
PathB == <<"b">>
PathPadded == <<SP, "a">>
PathBlank == <<SP>>
LangPy == <<"p", "y">>
BodyX == <<"x">>
BodyY == <<"y">>
BodyIndented == <<SP, SP, "x", NL, NL, SP, "y", SP>>
BodyNested == <<"x", NL, BT, BT, BT, NL, "y">>

Chunks == {
    [kind |-> "block", path |-> PathA, lang |-> LangPy, body |-> BodyX],
    [kind |-> "block", path |-> PathB, lang |-> <<>>, body |-> BodyY],
    [kind |-> "block", path |-> PathA, lang |-> LangPy, body |-> BodyY],
    [kind |-> "block", path |-> PathPadded, lang |-> <<>>, body |-> BodyY],
    [kind |-> "block", path |-> PathBlank, lang |-> LangPy, body |-> BodyX],
    [kind |-> "block", path |-> PathB, lang |-> LangPy, body |-> BodyIndented],
    [kind |-> "block", path |-> PathB, lang |-> LangPy, body |-> BodyNested],
    [kind |-> "tight", path |-> PathB, lang |-> LangPy, body |-> <<>>],
    [kind |-> "gap", path |-> PathB, lang |-> LangPy, body |-> BodyX],
    [kind |-> "text", path |-> PathB, lang |-> LangPy, body |-> BodyX],
    [kind |-> "marker", path |-> PathB, lang |-> <<>>, body |-> <<>>],
    [kind |-> "unclosed", path |-> PathB, lang |-> LangPy, body |-> BodyX],
    [kind |-> "prose", path |-> <<>>, lang |-> <<>>, body |-> BodyX]
}

ChunkText(c) ==
    CASE c.kind = "block"    -> Block(c.path, c.lang, c.body)
      [] c.kind = "tight"    -> Marker(c.path) \o <<NL>> \o Fence \o c.lang \o <<NL>> \o Fence
      [] c.kind = "gap"      -> Marker(c.path) \o <<NL, NL>> \o Fence \o c.lang \o <<NL>>
                                    \o c.body \o <<NL>> \o Fence
      [] c.kind = "text"     -> Marker(c.path) \o <<NL, "t", NL>> \o Fence \o c.lang \o <<NL>>
                                    \o c.body \o <<NL>> \o Fence
      [] c.kind = "marker"   -> Marker(c.path)
      [] c.kind = "unclosed" -> Marker(c.path) \o <<NL>> \o Fence \o c.lang \o <<NL>> \o c.body
      [] c.kind = "prose"    -> c.body

RECURSIVE JoinChunks(_)
JoinChunks(cs) ==
    IF cs = <<>> THEN <<>>
    ELSE IF Len(cs) = 1 THEN ChunkText(cs[1])
    ELSE ChunkText(cs[1]) \o <<NL>> \o JoinChunks(Tail(cs))

ChunkSeqs == UNION {[1..n -> Chunks] : n \in 0..MaxChunks}

(***************************************************************************)
(* extract_files                                                           *)
(***************************************************************************)
TextLang == <<"t", "e", "x", "t">>

ExIdle ==
    /\ chunks = <<>>
    /\ response = <<>>
    /\ pos = 1
    /\ seen_files = {}
    /\ ex_pc = "idle"

ExInit ==
    /\ chunks \in ChunkSeqs
    /\ response = JoinChunks(chunks)
    /\ pos = 1
    /\ files = <<>>
    /\ seen_files = {}
    /\ ex_pc = "scan"

\* Variant: no seen_files test, every match is recorded.
IsNewPathAlways(filepath, seen) == TRUE

\* if filepath not in seen_files
IsNewPath(filepath, seen) == filepath \notin seen

\* Variant: the record goes to the front of the list.
AddRecordFront(fl, rec) == <<rec>> \o fl

\* files.append((filepath, content, language))
AddRecord(fl, rec) == Append(fl, rec)

\* One iteration of the loop over the matches.
ExtractMatch ==
    /\ ex_pc = "scan"
    /\ LET m == NextMatch(response, pos) IN
       /\ m.ok
       /\ LET filepath == Strip(m.group1)
              language == IF m.has2 THEN m.group2 ELSE TextLang
              content  == Strip(m.group3)
          IN  /\ files' = IF IsNewPath(filepath, seen_files)
                          THEN AddRecord(files, <<filepath, content, language>>)
                          ELSE files
              /\ seen_files' = seen_files \cup {filepath}
       /\ pos' = m.end
    /\ UNCHANGED <<response, ex_pc, chunks, wrVars, cfVars, agVars, cliVars, chVars>>

\* The iterator is exhausted: return files.
ExtractReturn ==
    /\ ex_pc = "scan"
    /\ ~NextMatch(response, pos).ok
    /\ ex_pc' = "returned"
    /\ UNCHANGED <<response, pos, files, seen_files, chunks, wrVars, cfVars, agVars, cliVars, chVars>>

(***************************************************************************)
(* Paths. A path string is a text; pathlib splits it at "/" into segments  *)
(* (each a text). An absolute path is the sequence of its segments.        *)
(***************************************************************************)
Seg(c) == <<c>>
DotDot == <<".", ".">>

\* pathlib's parsing: empty segments and "." segments are dropped.
RECURSIVE SplitPath(_)
SplitPath(t) ==
    IF t = <<>> THEN <<>>
    ELSE LET j    == SkipTo(t, 1, "/")
             seg  == SubSeq(t, 1, j - 1)
             rest == IF j >= Len(t) THEN <<>> ELSE SubSeq(t, j + 1, Len(t))
         IN  IF seg = <<>> \/ seg = <<".">>
             THEN SplitPath(rest)
             ELSE <<seg>> \o SplitPath(rest)

\* base / filepath: an absolute filepath replaces the base.
JoinPath(base, filepath) ==
    IF filepath # <<>> /\ filepath[1] = "/"
    THEN SplitPath(filepath)
    ELSE base \o SplitPath(filepath)

Parent(path) == IF path = <<>> THEN <<>> ELSE SubSeq(path, 1, Len(path) - 1)

\* The project folder handed to write_files, and the world around it.
base_path == <<Seg("p")>>
OutsideDir == <<Seg("o")>>
Symlinks == (<<Seg("p"), Seg("l")>> :> OutsideDir)
Denied == {<<Seg("p"), Seg("k")>>}
OldContent == <<"o">>
InitDirs == {<<>>, base_path, OutsideDir}
InitFiles == (<<Seg("p"), Seg("e")>> :> OldContent)

\* Path.resolve(): ".." pops a component, a symlink is replaced by its
\* target, a missing component is kept as written.
RECURSIVE RealPath(_, _)
RealPath(done, rest) ==
    IF rest = <<>> THEN done
    ELSE LET name == Head(rest) IN
         IF name = DotDot
         THEN RealPath(Parent(done), Tail(rest))
         ELSE LET newpath == Append(done, name) IN
              IF newpath \in DOMAIN Symlinks
              THEN RealPath(Symlinks[newpath], Tail(rest))
              ELSE RealPath(newpath, Tail(rest))

Resolve(path) == RealPath(<<>>, path)

\* full_path.relative_to(base) succeeds.
IsWithin(path, base) ==
    /\ Len(path) >= Len(base)
    /\ SubSeq(path, 1, Len(base)) = base

Exists(dirs, fls, path) == path \in dirs \/ path \in DOMAIN fls

\* The resolved target of a record.
Target(filepath) == Resolve(JoinPath(base_path, filepath))

\* The safe_mode check of one record: relative_to raises ValueError.
\* Variant: the joined path is compared before it is resolved.
EscapesUnresolved(filepath) ==
    ~IsWithin(JoinPath(base_path, filepath), base_path)

Escapes(filepath) ==
    ~IsWithin(Resolve(JoinPath(base_path, filepath)), Resolve(base_path))

\* Path.mkdir(parents=True, exist_ok=True): the directories after the call
\* and the error it raises ("none", "perm" or "oserror"). Ancestors made
\* before a failure stay.
RECURSIVE Mkdir(_, _, _)
Mkdir(dirs, fls, path) ==
    IF path \in dirs THEN [dirs |-> dirs, err |-> "none"]
    ELSE IF path \in DOMAIN fls THEN [dirs |-> dirs, err |-> "oserror"]
    ELSE LET up == IF Parent(path) \in dirs
                   THEN [dirs |-> dirs, err |-> "none"]
                   ELSE Mkdir(dirs, fls, Parent(path))
         IN  IF up.err # "none" THEN up
             ELSE IF path \in Denied THEN [dirs |-> up.dirs, err |-> "perm"]
             ELSE [dirs |-> up.dirs \cup {path}, err |-> "none"]

\* What open(full_path, 'w') followed by f.write(content) leaves in the file.
\* Variant: mode 'a' keeps what the file held.
WrittenAppending(old, content) == old \o content

Written(old, content) == content

\* open(full_path, 'w') and f.write(content).
OpenWrite(dirs, fls, path, content) ==
    IF path \in dirs \/ Parent(path) \notin dirs
    THEN [fls |-> fls, err |-> "oserror"]
    ELSE IF path \in Denied THEN [fls |-> fls, err |-> "perm"]
    ELSE [fls |-> (path :> Written(IF path \in DOMAIN fls THEN fls[path] ELSE <<>>,
                                   content)) @@ fls,
          err |-> "none"]

\* The message chosen after the write (full_path.exists() is read after it).
Classify(exists_now, ow) ==
    IF exists_now THEN (IF ow THEN "Updated" ELSE "Created") ELSE "Created"

None == <<"None">>

\* Variant: only the empty string is refused, the path is not stripped.
IsBlankPathNoStrip(filepath) == filepath = <<>>

\* not filepath or filepath.strip() == ""
IsBlankPath(filepath) == filepath = <<>> \/ Strip(filepath) = <<>>

Outcome(dirs, fls, kind) == [dirs |-> dirs, fls |-> fls, kind |-> kind]

\* Variant: the overwrite flag is not consulted, an existing target is written.
SkipExistingNever(exists_before, ow) == FALSE

\* if full_path.exists() and not overwrite
SkipExisting(exists_before, ow) == exists_before /\ ~ow

\* The body of the try block for one well-formed record.
HandleRecord(filepath, content, dirs, fls, ow, safe) ==
    IF IsBlankPath(filepath) THEN Outcome(dirs, fls, "skip_empty") ELSE
    LET full_path == Target(filepath) IN
    IF safe /\ Escapes(filepath) THEN Outcome(dirs, fls, "escape") ELSE
    IF SkipExisting(Exists(dirs, fls, full_path), ow)
    THEN Outcome(dirs, fls, "skip_exists") ELSE
    LET mk == Mkdir(dirs, fls, Parent(full_path)) IN
    IF mk.err # "none" THEN Outcome(mk.dirs, fls, mk.err) ELSE
    IF content = None THEN Outcome(mk.dirs, fls, "skip_nocontent") ELSE
    LET op == OpenWrite(mk.dirs, fls, full_path, content) IN
    IF op.err # "none" THEN Outcome(mk.dirs, fls, op.err) ELSE
    Outcome(mk.dirs, op.fls, Classify(Exists(mk.dirs, op.fls, full_path), ow))

WrittenKinds == {"Created", "Updated"}
FailedKinds == {"perm", "oserror"}

\* Variant: the path is appended before the directories are made and the
\* file is opened, so a record whose write fails is listed too.
ListedAlsoFailed(kind) == kind \in WrittenKinds \cup FailedKinds

\* created_files.append(str(full_path)) follows the write: only a record
\* that reaches the success line is listed.
Listed(kind) == kind \in WrittenKinds

\* Where the loop goes after an except clause has reported a record.
\* Variant: one try block around the whole loop ends the batch.
AfterFailureAbort(i, n) == n + 1

\* The except clauses sit inside the loop body: the next record follows.
AfterFailure(i, n) == i + 1

(***************************************************************************)
(* ConfigManager (utils/config.py) on one configuration directory.         *)
(* An optional value is a set: {} for a missing file or None, {x} for x.   *)
(***************************************************************************)
Content(f) == CHOOSE x \in f : TRUE

ConfigFields == {"api_key", "default_model", "festive_mode", "project_folder", "theme"}

\* ClauseConfig(): the field defaults.
DefaultConfig ==
    [api_key |-> None, default_model |-> "sonnet", festive_mode |-> TRUE,
     project_folder |-> None, theme |-> "monokai"]

\* ClauseConfig(**data): fields missing from data take their defaults.
ParseConfig(data) ==
    [f \in ConfigFields |-> IF f \in DOMAIN data THEN data[f] ELSE DefaultConfig[f]]

\* Variant: the whole model is dumped, the api_key field included.
ModelDumpAll(c) == c

\* config.model_dump(exclude={"api_key"})
ModelDump(c) == [f \in ConfigFields \ {"api_key"} |-> c[f]]

\* The truth value of an Optional[str]: None and "" are false.
Truthy(k) == k # None /\ k # <<>>

\* What load reads when nothing is cached: config.json (or the defaults),
\* then the stripped text of .api_key, then the environment variable when
\* the key is still missing or empty.
LoadDisk ==
    LET base == IF config_file # {} THEN ParseConfig(Content(config_file))
                ELSE DefaultConfig
        keyed == IF api_key_file # {}
                 THEN [base EXCEPT !.api_key = Strip(Content(api_key_file))]
                 ELSE base
    IN  IF ~Truthy(keyed.api_key) THEN [keyed EXCEPT !.api_key = env_api_key]
        ELSE keyed

\* A ClauseConfig instance: its field values and its identity (the number of
\* instances made so far, plus one).
MaxObjects == 3

NewObject(config) == [id |-> objects + 1] @@ config

\* Variant: load builds a new instance from the disk on every call.
LoadedFromDisk == NewObject(LoadDisk)

\* load(): the cached instance when there is one, else a new instance holding
\* what the disk gives.
Loaded == IF cached_config # {} THEN Content(cached_config) ELSE NewObject(LoadDisk)

\* objects after a load: one more when nothing was cached.
ObjectsAfterLoad == IF cached_config # {} THEN objects ELSE objects + 1

\* The API keys and configurations the callers use.
Key1 == <<"k", "1">>
Key2 == <<"k", "2">>
KeyNewline == <<"k", "1", NL>>
KeyEnv == <<"k", "e">>
ApiKeys == {Key1, Key2, KeyNewline}
Models == {"sonnet", "haiku", "opus"}

Configs ==
    [api_key : ApiKeys \cup {None, <<>>}, default_model : Models,
     festive_mode : BOOLEAN, project_folder : {None}, theme : {"monokai"}]

CfIdle ==
    /\ config_file = {}
    /\ api_key_file = {}
    /\ env_api_key = None
    /\ cached_config = {}
    /\ saved_config = {}
    /\ fresh_config = {}
    /\ objects = 0
    /\ loads = <<>>

\* A new configuration directory; the environment may hold a key.
CfInit ==
    /\ config_file = {}
    /\ api_key_file = {}
    /\ env_api_key \in {None, KeyEnv}
    /\ cached_config = {}
    /\ saved_config = {}
    /\ fresh_config = {}
    /\ objects = 0
    /\ loads = <<>>

\* The body of save(config), shared by save and the set_* methods.
SaveConfig(config) ==
    /\ api_key_file' = IF Truthy(config.api_key) THEN {config.api_key} ELSE api_key_file
    /\ config_file' = {ModelDump(config)}
    /\ cached_config' = {config}
    /\ saved_config' = {config}
    /\ fresh_config' = {}
    /\ loads' = <<>>
    /\ UNCHANGED <<env_api_key, files, exVars, wrVars, chVars>>

\* manager.load()
Load ==
    /\ ObjectsAfterLoad <= MaxObjects
    /\ cached_config' = {Loaded}
    /\ objects' = ObjectsAfterLoad
    /\ loads' = IF loads = <<>> THEN <<Loaded>> ELSE <<loads[Len(loads)], Loaded>>
    /\ UNCHANGED <<config_file, api_key_file, env_api_key, saved_config, fresh_config,
                   files, exVars, wrVars, agVars, cliVars, chVars>>

\* manager.save(config), config a new instance made by the caller
Save ==
    \E config \in Configs :
        /\ objects < MaxObjects
        /\ SaveConfig(NewObject(config))
        /\ objects' = objects + 1
        /\ UNCHANGED <<agVars, cliVars, chVars>>

\* manager.set_api_key(api_key)
SetApiKey ==
    \E api_key \in ApiKeys :
        /\ ObjectsAfterLoad <= MaxObjects
        /\ SaveConfig([Loaded EXCEPT !.api_key = api_key])
        /\ objects' = ObjectsAfterLoad
        /\ UNCHANGED <<agVars, cliVars, chVars>>

\* manager.set_model(model)
SetModel ==
    \E model \in Models :
        /\ ObjectsAfterLoad <= MaxObjects
        /\ SaveConfig([Loaded EXCEPT !.default_model = model])
        /\ objects' = ObjectsAfterLoad
        /\ UNCHANGED <<agVars, cliVars, chVars>>

\* manager.set_festive_mode(enabled)
SetFestiveMode ==
    \E enabled \in BOOLEAN :
        /\ ObjectsAfterLoad <= MaxObjects
        /\ SaveConfig([Loaded EXCEPT !.festive_mode = enabled])
        /\ objects' = ObjectsAfterLoad
        /\ UNCHANGED <<agVars, cliVars, chVars>>

\* ConfigManager(config_dir=manager.config_dir).load()
FreshLoad ==
    /\ fresh_config' = {LoadDisk}
    /\ UNCHANGED <<config_file, api_key_file, env_api_key, cached_config, saved_config,
                   objects, loads, files, exVars, wrVars, agVars, cliVars, chVars>>

CfNext == Load \/ Save \/ SetApiKey \/ SetModel \/ SetFestiveMode \/ FreshLoad

(***************************************************************************)
(* ClauseCodeCLI.handle_command and the commands (cli.py,                  *)
(* commands/config.py). A line is a sequence of characters; a word of a    *)
(* command name, a model name or the key prefix "sk-ant-" is one token.    *)
(***************************************************************************)
\* str.lower() on the words that have capitals.
LowerCase == ("QUIT" :> "quit") @@ ("GRINCH" :> "grinch") @@ ("Opus" :> "opus")

Lower(w) == [i \in 1..Len(w) |-> IF w[i] \in DOMAIN LowerCase THEN LowerCase[w[i]] ELSE w[i]]

\* t.split(maxsplit=1): no part for a blank text, else the first word and,
\* when something other than whitespace follows it, the rest of the text
\* from there on (trailing whitespace kept).
SplitOnce(t) ==
    LET a == SkipIn(t, 1, WS) IN
    IF a > Len(t) THEN <<>> ELSE
    LET b == Min({j \in a..(Len(t) + 1) : j = Len(t) + 1 \/ t[j] \in WS})
        c == SkipIn(t, b, WS)
    IN  IF c > Len(t) THEN <<SubSeq(t, a, b - 1)>>
        ELSE <<SubSeq(t, a, b - 1), SubSeq(t, c, Len(t))>>

\* parts = command_line[1:].split(maxsplit=1); cmd_name and args from it.
Parsed(line) ==
    LET parts == SplitOnce(Tail(line))
    IN  [n        |-> Len(parts),
         cmd_name |-> IF parts # <<>> THEN Lower(parts[1]) ELSE <<>>,
         args     |-> IF Len(parts) > 1 THEN parts[2] ELSE <<>>]

\* The keys of ClaudeAgent.MODELS and of self.commands.
AgentModels == {"sonnet", "haiku", "opus"}
CommandNames == {<<"setkey">>, <<"project">>, <<"model">>, <<"santa">>, <<"grinch">>,
                 <<"advent">>, <<"clear">>, <<"help">>}
ExitNames == {<<"exit">>, <<"quit">>}

\* The lines typed at the prompt that start with "/".
Lines == {
    <<"/">>,
    <<"/", SP>>,
    <<"/", "exit">>,
    <<"/", "QUIT">>,
    <<"/", "exit", SP, "x">>,
    <<"/", "help">>,
    <<"/", "x">>,
    <<"/", "setkey">>,
    <<"/", "model">>,
    <<"/", "model", SP, "haiku">>,
    <<"/", "model", SP, "Opus", SP>>,
    <<"/", "model", SP, "sonnet">>,
    <<"/", "model", SP, "x">>,
    <<"/", "santa">>,
    <<"/", "GRINCH", SP, "x">>
}

\* What getpass returns to /setkey, or EOF when it raises EOFError.
EOF == <<"EOF">>
KeySk1 == <<"sk-ant-", "1">>
KeySk2 == <<"sk-ant-", "2">>
Entered == {<<>>, Key1, <<SP, "sk-ant-", "1">>, KeySk1, KeySk2, EOF}

\* Variant: every non-empty key is accepted.
AcceptsKeyNonEmpty(api_key) == api_key # <<>>

\* not (not api_key) and api_key.startswith("sk-ant-")
AcceptsKey(api_key) == api_key # <<>> /\ api_key[1] = "sk-ant-"

\* Variant: the model name is not written to the configuration.
WithModelKept(config, model) == config

\* config.default_model = model (ConfigManager.set_model)
WithModel(config, model) == [config EXCEPT !.default_model = model]

\* config.festive_mode = enabled (ConfigManager.set_festive_mode)
WithFestive(config, enabled) == [config EXCEPT !.festive_mode = enabled]

Snapshot ==
    [config_file |-> config_file, api_key_file |-> api_key_file,
     cached_config |-> cached_config, model |-> agent_model,
     festive_mode |-> agent_festive_mode]

CliIdle ==
    /\ agent_model = "sonnet"
    /\ agent_festive_mode = TRUE
    /\ command_line = <<>>
    /\ handled = "none"
    /\ getpass_in = <<>>
    /\ cli_before = <<>>
    /\ cli_pc = "idle"

ChIdle ==
    /\ conversation_history = <<>>
    /\ message = <<>>
    /\ full_response = <<>>
    /\ cli_response = <<>>
    /\ history_before = <<>>
    /\ outcome = "none"
    /\ chats = 0
    /\ chat_pc = "idle"

\* What the chat loop does with the outcome of handle_command: the next
\* prompt on True, break on False; an exception leaves chat_loop and ends run.
AfterCommand(result) ==
    CASE result = "True"   -> "prompt"
      [] result = "False"  -> "exited"
      [] result = "raised" -> "fatal"

\* The part of a handle_command call common to every line.
CliStep(line, result) ==
    /\ cli_pc = "prompt"
    /\ command_line' = line
    /\ cli_before' = Snapshot
    /\ handled' = result
    /\ cli_pc' = AfterCommand(result)

\* parts[0] on a line with no word after the slash: IndexError.
HandleBlank ==
    \E line \in Lines :
        /\ Parsed(line).n = 0
        /\ CliStep(line, "raised")
        /\ UNCHANGED <<getpass_in, cfVars, agVars, files, exVars, wrVars, chVars>>

\* /exit and /quit
HandleExit ==
    \E line \in Lines :
        /\ Parsed(line).n > 0
        /\ Parsed(line).cmd_name \in ExitNames
        /\ CliStep(line, "False")
        /\ UNCHANGED <<getpass_in, cfVars, agVars, files, exVars, wrVars, chVars>>

\* /setkey: SetKeyCommand.execute; an EOFError of getpass is caught by
\* handle_command.
HandleSetKey ==
    \E line \in Lines, api_key \in Entered :
        /\ Parsed(line).n > 0
        /\ Parsed(line).cmd_name = <<"setkey">>
        /\ CliStep(line, "True")
        /\ getpass_in' = api_key
        /\ IF api_key # EOF /\ AcceptsKey(api_key)
           THEN /\ ObjectsAfterLoad <= MaxObjects
                /\ SaveConfig([Loaded EXCEPT !.api_key = api_key])
                /\ objects' = ObjectsAfterLoad
                /\ UNCHANGED agVars
           ELSE UNCHANGED <<cfVars, agVars, files, exVars, wrVars, chVars>>

\* /model: ModelCommand.execute
HandleModel ==
    \E line \in Lines :
        /\ Parsed(line).n > 0
        /\ Parsed(line).cmd_name = <<"model">>
        /\ CliStep(line, "True")
        /\ LET model_name == Lower(Strip(Parsed(line).args)) IN
           IF Parsed(line).args # <<>> /\ Len(model_name) = 1 /\ model_name[1] \in AgentModels
           THEN /\ agent_model' = model_name[1]
                /\ ObjectsAfterLoad <= MaxObjects
                /\ SaveConfig(WithModel(Loaded, model_name[1]))
                /\ objects' = ObjectsAfterLoad
                /\ UNCHANGED <<agent_festive_mode, getpass_in>>
           ELSE UNCHANGED <<getpass_in, cfVars, agVars, files, exVars, wrVars, chVars>>

\* /santa and /grinch: SantaCommand.execute, GrinchCommand.execute
HandleFestive ==
    \E line \in Lines :
        /\ Parsed(line).n > 0
        /\ Parsed(line).cmd_name \in {<<"santa">>, <<"grinch">>}
        /\ CliStep(line, "True")
        /\ LET enabled == Parsed(line).cmd_name = <<"santa">> IN
           /\ agent_festive_mode' = enabled
           /\ ObjectsAfterLoad <= MaxObjects
           /\ SaveConfig(WithFestive(Loaded, enabled))
           /\ objects' = ObjectsAfterLoad
           /\ UNCHANGED <<agent_model, getpass_in>>

\* /help, and a name that is not a command: messages only.
HandleOther ==
    \E line \in Lines :
        /\ Parsed(line).n > 0
        /\ Parsed(line).cmd_name \notin ExitNames
        /\ Parsed(line).cmd_name = <<"help">> \/ Parsed(line).cmd_name \notin CommandNames
        /\ CliStep(line, "True")
        /\ UNCHANGED <<getpass_in, cfVars, agVars, files, exVars, wrVars, chVars>>

CliNext ==
    HandleBlank \/ HandleExit \/ HandleSetKey \/ HandleModel \/ HandleFestive \/ HandleOther

(***************************************************************************)
(* write_files batches: up to MaxFiles records.                            *)
(***************************************************************************)
MaxFiles == 3

WriteRecords == {
    <<<<"a">>, <<"x">>, TextLang>>,
    <<<<"d", "/", "b">>, <<"y">>, TextLang>>,
    <<<<"e">>, <<"x">>, TextLang>>,
    <<<<".", ".", "/", "o", "/", "f">>, <<"x">>, TextLang>>,
    <<<<"l", "/", "f">>, <<"x">>, TextLang>>,
    <<<<"k">>, <<"x">>, TextLang>>,
    <<<<"d">>, <<"x">>, TextLang>>,
    <<<<>>, <<"x">>, TextLang>>,
    <<<<SP>>, <<"x">>, TextLang>>,
    <<<<"d", "/", "b">>, None, TextLang>>,
    <<<<"a">>, <<>>, TextLang>>,
    <<<<"a">>, <<"x">>>>
}

Batches == UNION {[1..n -> WriteRecords] : n \in 0..MaxFiles}

WrIdle ==
    /\ fs_dirs = InitDirs
    /\ fs_files = InitFiles
    /\ overwrite = TRUE
    /\ safe_mode = FALSE
    /\ idx = 1
    /\ created_files = <<>>
    /\ console = <<>>
    /\ wr_pc = "idle"
    /\ run = 0
    /\ prev = [created |-> <<>>, fls |-> InitFiles]

WrInit ==
    /\ files \in Batches
    /\ fs_dirs = InitDirs
    /\ fs_files = InitFiles
    /\ overwrite \in BOOLEAN
    /\ safe_mode \in BOOLEAN
    /\ idx = 1
    /\ created_files = <<>>
    /\ console = <<>>
    /\ wr_pc = "loop"
    /\ run = 1
    /\ prev = [created |-> <<>>, fls |-> InitFiles]

\* One iteration of the loop, for a record that unpacks into three names.
WriteRecord ==
    /\ wr_pc = "loop"
    /\ idx <= Len(files)
    /\ Len(files[idx]) = 3
    /\ LET filepath == files[idx][1]
           content  == files[idx][2]
           r == HandleRecord(filepath, content, fs_dirs, fs_files, overwrite, safe_mode)
       IN  /\ fs_dirs' = r.dirs
           /\ fs_files' = r.fls
           /\ console' = Append(console, [kind |-> r.kind, filepath |-> filepath])
           /\ created_files' =
                 IF Listed(r.kind)
                 THEN Append(created_files, Target(filepath))
                 ELSE created_files
           /\ idx' = IF r.kind \in FailedKinds
                     THEN AfterFailure(idx, Len(files))
                     ELSE idx + 1
    /\ UNCHANGED <<files, overwrite, safe_mode, wr_pc, run, prev, exVars, cfVars, agVars, cliVars, chVars>>

\* The for statement unpacks the record before the try block is entered:
\* a record that is not a triple raises ValueError out of write_files.
UnpackError ==
    /\ wr_pc = "loop"
    /\ idx <= Len(files)
    /\ Len(files[idx]) # 3
    /\ wr_pc' = "raised"
    /\ UNCHANGED <<files, fs_dirs, fs_files, overwrite, safe_mode, idx, created_files,
                   console, run, prev, exVars, cfVars, agVars, cliVars, chVars>>

\* The loop is over: return created_files.
WriteReturn ==
    /\ wr_pc = "loop"
    /\ idx > Len(files)
    /\ wr_pc' = "returned"
    /\ UNCHANGED <<files, fs_dirs, fs_files, overwrite, safe_mode, idx, created_files,
                   console, run, prev, exVars, cfVars, agVars, cliVars, chVars>>

\* The caller runs write_files again on the same records and base directory.
Rerun ==
    /\ wr_pc = "returned"
    /\ run = 1
    /\ run' = 2
    /\ prev' = [created |-> created_files, fls |-> fs_files]
    /\ idx' = 1
    /\ created_files' = <<>>
    /\ console' = <<>>
    /\ wr_pc' = "loop"
    /\ UNCHANGED <<files, fs_dirs, fs_files, overwrite, safe_mode, exVars, cfVars, agVars, cliVars, chVars>>

WrNext == WriteRecord \/ UnpackError \/ WriteReturn \/ Rerun

InitWrite == WrInit /\ ExIdle /\ CfIdle /\ CliIdle /\ ChIdle

SpecWrite == InitWrite /\ [][WrNext]_vars

ExNext == ExtractMatch \/ ExtractReturn

InitExtract == ExInit /\ WrIdle /\ CfIdle /\ CliIdle /\ ChIdle

SpecExtract == InitExtract /\ [][ExNext]_vars

InitConfig == CfInit /\ ExIdle /\ WrIdle /\ CliIdle /\ ChIdle /\ files = <<>>

SpecConfig == InitConfig /\ [][CfNext]_vars

\* ClauseCodeCLI.run up to the chat loop: the configuration directory holds
\* a key and possibly a config.json; the configuration is loaded and the
\* agent is built from it.
InitCli ==
    /\ config_file \in {{}} \cup {{ModelDump(c)} : c \in Configs}
    /\ api_key_file \in {{Key1}, {KeySk1}}
    /\ env_api_key = None
    /\ objects = 1
    /\ cached_config = {[id |-> 1] @@ LoadDisk}
    /\ saved_config = {}
    /\ fresh_config = {}
    /\ loads = <<>>
    /\ agent_model = Content(cached_config).default_model
    /\ agent_festive_mode = Content(cached_config).festive_mode
    /\ command_line = <<>>
    /\ handled = "none"
    /\ getpass_in = <<>>
    /\ cli_before = <<>>
    /\ cli_pc = "prompt"
    /\ ChIdle
    /\ ExIdle
    /\ WrIdle
    /\ files = <<>>

SpecCli == InitCli /\ [][CliNext]_vars

\* The command name of the line handle_command was last called with.
LastCommand == IF command_line = <<>> THEN <<>> ELSE Parsed(command_line).cmd_name

\* The stored key and the configuration files are as before the command.
ConfigUntouched ==
    /\ config_file = cli_before.config_file
    /\ api_key_file = cli_before.api_key_file
    /\ cached_config = cli_before.cached_config

\* C22: after /setkey the entered key is stored (in .api_key and in the
\* configuration) when it is non-empty and starts with "sk-ant-"; for an
\* empty key or a key of another format the stored key and the
\* configuration files are what they were before the command.
C22_SetKeyValidates ==
    (LastCommand = <<"setkey">> /\ getpass_in # EOF) =>
        IF getpass_in # <<>> /\ Head(getpass_in) = "sk-ant-"
        THEN /\ api_key_file = {getpass_in}
             /\ Content(cached_config).api_key = getpass_in
        ELSE ConfigUntouched

C22_Witness ==
    /\ LastCommand = <<"setkey">>
    /\ getpass_in = <<SP, "sk-ant-", "1">>
    /\ api_key_file = {Key1}
    /\ handled = "True"

\* C28: after any sequence of commands the agent and the configuration
\* agree on the model and on festive mode, the agent's model is one of
\* sonnet, haiku, opus, and a /model command with an unknown name changes
\* neither the agent nor the configuration.
C28_AgentAgreesWithConfig ==
    /\ agent_model = Content(cached_config).default_model
    /\ agent_festive_mode = Content(cached_config).festive_mode
    /\ agent_model \in {"sonnet", "haiku", "opus"}
    /\ (/\ LastCommand = <<"model">>
        /\ Lower(Strip(Parsed(command_line).args))
               \notin {<<"sonnet">>, <<"haiku">>, <<"opus">>})
            => (ConfigUntouched /\ agent_model = cli_before.model
                                /\ agent_festive_mode = cli_before.festive_mode)

C28_Witness ==
    /\ command_line = <<"/", "model", SP, "Opus", SP>>
    /\ cli_before.model = "sonnet"
    /\ agent_model = "opus"
    /\ agent_festive_mode = FALSE

\* C29: handle_command never raises, returns False exactly for /exit and
\* /quit, and after a True the chat loop is at the next prompt.
C29_HandleCommandTotal ==
    /\ handled # "raised"
    /\ handled = "False" <=> LastCommand \in {<<"exit">>, <<"quit">>}
    /\ handled = "True" => cli_pc = "prompt"

(***************************************************************************)
(* The chat loop: the records extracted from one response are handed to    *)
(* write_files with the default flags (overwrite=True, safe_mode=False).   *)
(***************************************************************************)
PathDotA == <<".", "/", "a">>

PipeChunks ==
    Chunks \cup {[kind |-> "block", path |-> PathDotA, lang |-> LangPy, body |-> BodyY]}

PipeChunkSeqs == UNION {[1..n -> PipeChunks] : n \in 0..MaxChunks}

InitPipeline ==
    /\ chunks \in PipeChunkSeqs
    /\ response = JoinChunks(chunks)
    /\ pos = 1
    /\ files = <<>>
    /\ seen_files = {}
    /\ ex_pc = "scan"
    /\ WrIdle
    /\ CfIdle
    /\ CliIdle /\ ChIdle

\* if files: created = self.file_extractor.write_files(files, project_folder)
StartWrite ==
    /\ ex_pc = "returned"
    /\ wr_pc = "idle"
    /\ files # <<>>
    /\ wr_pc' = "loop"
    /\ run' = 1
    /\ UNCHANGED <<files, fs_dirs, fs_files, overwrite, safe_mode, idx, created_files,
                   console, prev, exVars, cfVars, agVars, cliVars, chVars>>

PipeNext == ExtractMatch \/ ExtractReturn \/ StartWrite \/ WriteRecord \/ WriteReturn

SpecPipeline == InitPipeline /\ [][PipeNext]_vars

(***************************************************************************)
(* ClaudeAgent.chat and the chat loop around it (agent.py, cli.py): the    *)
(* agent streams text chunks to the loop, which prints and collects them   *)
(* and, when the generator is exhausted, hands their concatenation to      *)
(* extract_files and the records to write_files. A project folder is set.  *)
(***************************************************************************)
MaxChats == 2
MaxStream == 2

\* The user's messages.
Messages == {<<"m", "1">>, <<"m", "2">>}

\* What stream.text_stream gives in one piece.
StreamTexts == {
    Block(PathA, LangPy, BodyX),
    <<NL>> \o Block(PathB, <<>>, BodyY),
    <<NL>> \o BodyX
}

\* "".join(full_response)
RECURSIVE JoinText(_)
JoinText(texts) == IF texts = <<>> THEN <<>> ELSE Head(texts) \o JoinText(Tail(texts))

UserEntry(content) == [role |-> "user", content |-> content]

\* Variant: the assistant entry holds no text.
AssistantEntryEmpty(content) == [role |-> "assistant", content |-> <<>>]

AssistantEntry(content) == [role |-> "assistant", content |-> content]

InitChat ==
    /\ conversation_history = <<>>
    /\ message = <<>>
    /\ full_response = <<>>
    /\ cli_response = <<>>
    /\ history_before = <<>>
    /\ outcome = "none"
    /\ chats = 0
    /\ chat_pc = "prompt"
    /\ files = <<>>
    /\ ExIdle
    /\ WrIdle
    /\ CfIdle
    /\ CliIdle

\* agent.chat(user_input) up to the request: the user message is appended.
ChatCall ==
    \E user_input \in Messages :
        /\ chat_pc = "prompt"
        /\ chats < MaxChats
        /\ chats' = chats + 1
        /\ message' = user_input
        /\ history_before' = conversation_history
        /\ conversation_history' = Append(conversation_history, UserEntry(user_input))
        /\ full_response' = <<>>
        /\ cli_response' = <<>>
        /\ outcome' = "running"
        /\ chat_pc' = "request"
        /\ UNCHANGED <<files, exVars, wrVars, cfVars, agVars, cliVars>>

\* One text of the stream: appended by the agent, yielded, printed and
\* appended by the loop.
StreamText ==
    \E text \in StreamTexts :
        /\ chat_pc \in {"request", "streaming"}
        /\ Len(full_response) < MaxStream
        /\ full_response' = Append(full_response, text)
        /\ cli_response' = Append(cli_response, text)
        /\ chat_pc' = "streaming"
        /\ UNCHANGED <<conversation_history, message, history_before, outcome, chats,
                       files, exVars, wrVars, cfVars, agVars, cliVars>>

\* The stream ends: the assistant entry is appended and the generator is
\* exhausted.
StreamEnd ==
    /\ chat_pc \in {"request", "streaming"}
    /\ conversation_history' =
           Append(conversation_history, AssistantEntry(JoinText(full_response)))
    /\ outcome' = "complete"
    /\ chat_pc' = "ended"
    /\ UNCHANGED <<message, full_response, cli_response, history_before, chats,
                   files, exVars, wrVars, cfVars, agVars, cliVars>>

\* An exception while the request is made or while the stream is read: the
\* except branch yields "" and the generator is exhausted.
StreamFails ==
    /\ chat_pc \in {"request", "streaming"}
    /\ cli_response' = Append(cli_response, <<>>)
    /\ outcome' = IF chat_pc = "request" THEN "request_failed" ELSE "stream_failed"
    /\ chat_pc' = "ended"
    /\ UNCHANGED <<conversation_history, message, full_response, history_before, chats,
                   files, exVars, wrVars, cfVars, agVars, cliVars>>

\* KeyboardInterrupt while the loop waits for or prints a chunk: the
\* generator is abandoned and the loop goes to the next prompt.
Cancelled ==
    /\ chat_pc \in {"request", "streaming"}
    /\ outcome' = "cancelled"
    /\ chat_pc' = "prompt"
    /\ UNCHANGED <<conversation_history, message, full_response, cli_response,
                   history_before, chats, files, exVars, wrVars, cfVars, agVars, cliVars>>

\* The async for is over: files = extract_files("".join(full_response))
ExtractResponse ==
    /\ chat_pc = "ended"
    /\ response' = JoinText(cli_response)
    /\ pos' = 1
    /\ files' = <<>>
    /\ seen_files' = {}
    /\ ex_pc' = "scan"
    /\ chat_pc' = "files"
    /\ UNCHANGED <<chunks, conversation_history, message, full_response, cli_response,
                   history_before, outcome, chats, wrVars, cfVars, agVars, cliVars>>

\* The end of the iteration: no record, or write_files has returned.
NextPrompt ==
    /\ chat_pc = "files"
    /\ \/ ex_pc = "returned" /\ files = <<>>
       \/ wr_pc = "returned"
    /\ chat_pc' = "prompt"
    /\ response' = <<>>
    /\ pos' = 1
    /\ files' = <<>>
    /\ seen_files' = {}
    /\ ex_pc' = "idle"
    /\ idx' = 1
    /\ created_files' = <<>>
    /\ console' = <<>>
    /\ wr_pc' = "idle"
    /\ run' = 0
    /\ UNCHANGED <<chunks, fs_dirs, fs_files, overwrite, safe_mode, prev,
                   conversation_history, message, full_response, cli_response,
                   history_before, outcome, chats, cfVars, agVars, cliVars>>

\* /clear: agent.clear_history()
ClearHistory ==
    /\ chat_pc = "prompt"
    /\ conversation_history # <<>>
    /\ conversation_history' = <<>>
    /\ UNCHANGED <<message, full_response, cli_response, history_before, outcome, chats,
                   chat_pc, files, exVars, wrVars, cfVars, agVars, cliVars>>

ChatNext ==
    \/ ChatCall \/ StreamText \/ StreamEnd \/ StreamFails \/ Cancelled
    \/ ExtractResponse \/ ExtractMatch \/ ExtractReturn
    \/ StartWrite \/ WriteRecord \/ WriteReturn
    \/ NextPrompt \/ ClearHistory

SpecChat == InitChat /\ [][ChatNext]_vars

\* C23: a chat call whose stream completes extends conversation_history by
\* exactly two entries, the user entry with the message and then one
\* assistant entry whose content is the concatenation of the chunks the
\* call yielded; a call whose request fails yields the single chunk "".
C23_ChatExtendsHistory ==
    /\ (outcome = "complete" /\ chat_pc # "prompt") =>
           conversation_history =
               history_before \o <<[role |-> "user", content |-> message],
                                   [role |-> "assistant", content |-> JoinText(cli_response)]>>
    /\ outcome = "request_failed" => cli_response = << <<>> >>

C23_Witness ==
    /\ outcome = "complete"
    /\ chat_pc = "ended"
    /\ Len(cli_response) = 2
    /\ Len(conversation_history) = 4

\* C24: extract_files and write_files run only on the concatenation of the
\* chunks of a stream that ended normally: never after a stream that failed
\* part-way or was interrupted.
C24_OnlyCompleteResponses ==
    /\ ex_pc # "idle" => response = JoinText(cli_response)
    /\ outcome \in {"stream_failed", "cancelled"} => ex_pc = "idle" /\ wr_pc = "idle"

\* C27: conversation_history alternates user and assistant entries,
\* starting with a user entry.
C27_HistoryAlternates ==
    \A i \in 1..Len(conversation_history) :
        conversation_history[i].role = IF i % 2 = 1 THEN "user" ELSE "assistant"

(***************************************************************************)
(* Properties of write_files (checked under SpecWrite)                     *)
(***************************************************************************)
ResolvedBase == Resolve(base_path)

\* The returned list the console lines 1..n account for: the target of every
\* record reported Created or Updated, in record order.
RECURSIVE WrittenPaths(_)
WrittenPaths(n) ==
    IF n = 0 THEN <<>>
    ELSE IF console[n].kind \in WrittenKinds
         THEN Append(WrittenPaths(n - 1), Target(files[n][1]))
         ELSE WrittenPaths(n - 1)

\* C1: under safe_mode every record whose resolved target lies outside the
\* resolved base directory is reported as a path escape, no returned path
\* lies outside the base, and nothing outside the base directory has been
\* created or changed (directories and files are those of the start, with
\* the same content).
C1_SafeModeContainment ==
    safe_mode =>
        /\ \A i \in 1..Len(console) :
              ~IsWithin(Target(files[i][1]), ResolvedBase) => console[i].kind = "escape"
        /\ \A j \in 1..Len(created_files) : IsWithin(created_files[j], ResolvedBase)
        /\ \A d \in fs_dirs : ~IsWithin(d, ResolvedBase) => d \in InitDirs
        /\ \A f \in DOMAIN fs_files :
              ~IsWithin(f, ResolvedBase) =>
                  f \in DOMAIN InitFiles /\ fs_files[f] = InitFiles[f]

C1_Witness ==
    /\ safe_mode
    /\ wr_pc = "returned"
    /\ \E i, j \in 1..Len(console) :
          /\ console[i].kind = "escape"
          /\ files[i][1] = <<"l", "/", "f">>
          /\ console[j].kind \in WrittenKinds

\* C2: the records are handled one at a time in list order and a file system
\* failure does not stop the batch: every record before idx has its own
\* console line, the call returns only when every record was handled, the
\* returned list holds exactly the targets of the records reported written
\* (so never that of a failed record), and the record handled last, when
\* reported written, has its content on disk.
C2_FailureDoesNotStopBatch ==
    wr_pc \in {"loop", "returned"} =>
        /\ Len(console) = idx - 1
        /\ idx <= Len(files) + 1
        /\ \A i \in 1..Len(console) : console[i].filepath = files[i][1]
        /\ created_files = WrittenPaths(Len(console))
        /\ (Len(console) > 0 /\ console[Len(console)].kind \in WrittenKinds) =>
              LET t == Target(files[Len(console)][1])
              IN  t \in DOMAIN fs_files /\ fs_files[t] = files[Len(console)][2]

C2_Witness ==
    /\ wr_pc = "returned"
    /\ Len(console) = 3
    /\ console[1].kind \in WrittenKinds
    /\ console[2].kind = "perm"
    /\ console[3].kind \in WrittenKinds
    /\ Len(created_files) = 2

\* C3 (as claimed): write_files never propagates an exception to its caller,
\* whatever the records are.
C3_NeverPropagates == wr_pc # "raised"

\* C4 (as claimed): a record that is written is reported Updated exactly when
\* its target existed before the write began, and Created otherwise.
C4_UpdatedIffExistedBefore ==
    [][(/\ wr_pc = "loop"
        /\ Len(console') = Len(console) + 1
        /\ console'[Len(console')].kind \in WrittenKinds)
       => (console'[Len(console')].kind = "Updated"
             <=> Exists(fs_dirs, fs_files, Target(files[idx][1])))]_vars

\* C5: with overwrite=True, a second write_files call on the same records and
\* base directory leaves every file with the content the first call left,
\* returns the same list, and reports every file it writes as Updated.
C5_RerunIdempotent ==
    (run = 2 /\ wr_pc = "returned" /\ overwrite) =>
        /\ fs_files = prev.fls
        /\ created_files = prev.created
        /\ \A i \in 1..Len(console) :
              console[i].kind \in WrittenKinds => console[i].kind = "Updated"

C5_Witness ==
    /\ run = 2
    /\ wr_pc = "returned"
    /\ overwrite
    /\ Len(created_files) = 2
    /\ created_files[1] # created_files[2]

\* The files on disk when the current write_files call began.
StartFiles == IF run = 2 THEN prev.fls ELSE InitFiles

\* The directories above a path, the root included.
Ancestors(path) == {SubSeq(path, 1, n) : n \in 0..(Len(path) - 1)}

\* Record i names a path with a character that is not whitespace.
NonBlank(i) == \E c \in 1..Len(files[i][1]) : files[i][1][c] \notin WS

\* C13 (as claimed): when write_files is over, the console holds exactly one
\* status line for each record of the batch, in record order.
C13_OneLinePerRecord ==
    wr_pc \in {"returned", "raised"} =>
        /\ Len(console) = Len(files)
        /\ \A i \in 1..Len(console) : console[i].filepath = files[i][1]

\* C14: with overwrite=False a record whose target existed when the call
\* began is reported skipped (unless its path is blank or safe_mode rejects
\* it first), is not in the returned list and does not end the batch; no
\* directory is made for a skipped record, and every file that existed when
\* the call began is still there with the content it had.
C14_NoOverwriteKeepsExisting ==
    ~overwrite =>
        /\ \A f \in DOMAIN StartFiles :
              f \in DOMAIN fs_files /\ fs_files[f] = StartFiles[f]
        /\ \A i \in 1..Len(console) :
              (/\ NonBlank(i)
               /\ ~(safe_mode /\ ~IsWithin(Target(files[i][1]), ResolvedBase))
               /\ Target(files[i][1]) \in DOMAIN StartFiles)
                  => console[i].kind = "skip_exists"
        /\ \A j \in 1..Len(created_files) : created_files[j] \notin DOMAIN StartFiles
        /\ run = 1 =>
              \A d \in fs_dirs \ InitDirs :
                  \E i \in 1..Len(console) :
                      /\ console[i].kind # "skip_exists"
                      /\ d \in Ancestors(Target(files[i][1]))
        /\ wr_pc \in {"loop", "returned"} => Len(console) = idx - 1

C14_Witness ==
    /\ ~overwrite
    /\ run = 1
    /\ wr_pc = "returned"
    /\ Len(console) = 2
    /\ files[1][1] = <<"e">>
    /\ console[1].kind = "skip_exists"
    /\ console[2].kind = "Created"
    /\ fs_files[<<Seg("p"), Seg("e")>>] = OldContent

\* C15 (as claimed): a record whose content is None is reported skipped and
\* leaves the file system as it was: every directory made during the batch
\* lies above the target of a record that has content; an empty content is
\* written as an empty file.
C15_NoneSkippedBeforeMkdir ==
    /\ \A i \in 1..Len(console) :
          files[i][2] = None =>
              console[i].kind \in {"skip_empty", "escape", "skip_exists", "skip_nocontent"}
    /\ run = 1 =>
          \A d \in fs_dirs \ InitDirs :
              \E i \in 1..Len(console) :
                  files[i][2] # None /\ d \in Ancestors(Target(files[i][1]))
    /\ (/\ Len(console) > 0
        /\ files[Len(console)][2] = <<>>
        /\ console[Len(console)].kind \in WrittenKinds)
           => fs_files[Target(files[Len(console)][1])] = <<>>

\* C16: a record whose path is empty or whitespace only is reported as an
\* empty path and the batch goes on; nothing is made or written for it (every
\* directory made and every file made or changed belongs to a record with a
\* non-blank path) and the returned list holds no entry for it.
C16_BlankPathSkipped ==
    /\ \A i \in 1..Len(console) : ~NonBlank(i) => console[i].kind = "skip_empty"
    /\ run = 1 =>
          /\ \A d \in fs_dirs \ InitDirs :
                \E i \in 1..Len(console) :
                    NonBlank(i) /\ d \in Ancestors(Target(files[i][1]))
          /\ \A f \in DOMAIN fs_files :
                (f \notin DOMAIN InitFiles \/ fs_files[f] # InitFiles[f]) =>
                    \E i \in 1..Len(console) : NonBlank(i) /\ Target(files[i][1]) = f
    /\ Len(created_files) <= Cardinality({i \in 1..Len(console) : NonBlank(i)})
    /\ wr_pc \in {"loop", "returned"} => Len(console) = idx - 1

C16_Witness ==
    /\ wr_pc = "returned"
    /\ run = 1
    /\ Len(console) = 3
    /\ files[1][1] = <<>>
    /\ files[2][1] = <<SP>>
    /\ console[1].kind = "skip_empty"
    /\ console[2].kind = "skip_empty"
    /\ console[3].kind \in WrittenKinds
    /\ Len(created_files) = 1

\* C17: when write_files returns, the list holds, in record order, the
\* resolved target of exactly the records whose write completed: every listed
\* path is resolved and is a file on disk below directories that all exist,
\* and every file made or changed by the call is listed.
C17_ReturnedListIsWritten ==
    wr_pc = "returned" =>
        /\ created_files = WrittenPaths(Len(console))
        /\ \A j \in 1..Len(created_files) :
              /\ Resolve(created_files[j]) = created_files[j]
              /\ created_files[j] \in DOMAIN fs_files
              /\ Ancestors(created_files[j]) \subseteq fs_dirs
        /\ \A f \in DOMAIN fs_files :
              (f \notin DOMAIN StartFiles \/ fs_files[f] # StartFiles[f]) =>
                  \E j \in 1..Len(created_files) : created_files[j] = f

C17_Witness ==
    /\ wr_pc = "returned"
    /\ run = 1
    /\ Len(console) = 3
    /\ console[2].kind \in FailedKinds
    /\ created_files = <<<<Seg("p"), Seg("d"), Seg("b")>>, <<Seg("p"), Seg("a")>>>>
    /\ <<Seg("p"), Seg("d")>> \in fs_dirs \ InitDirs

(***************************************************************************)
(* Properties of extract_files (checked under SpecExtract)                 *)
(***************************************************************************)
\* Every match re.finditer yields from position p on, in order.
RECURSIVE MatchesFrom(_, _)
MatchesFrom(s, p) ==
    LET m == NextMatch(s, p)
    IN  IF ~m.ok THEN <<>> ELSE <<m>> \o MatchesFrom(s, m.end)

\* The first match of the response that names path p.
FirstNaming(ms, p) == Min({k \in 1..Len(ms) : Strip(ms[k].group1) = p})

\* C6: the paths of the returned records are pairwise distinct; a path named
\* by one or more matched blocks has exactly one record, whose content is
\* the (stripped) body of the first block naming it.
C6_DistinctFirstWins ==
    /\ \A i, j \in 1..Len(files) : i # j => files[i][1] # files[j][1]
    /\ ex_pc = "returned" =>
          LET ms == MatchesFrom(response, 1) IN
          \A k \in 1..Len(ms) :
              LET p == Strip(ms[k].group1) IN
              /\ Cardinality({i \in 1..Len(files) : files[i][1] = p}) = 1
              /\ \A i \in 1..Len(files) :
                    files[i][1] = p =>
                        files[i][2] = Strip(ms[FirstNaming(ms, p)].group3)

C6_Witness ==
    /\ ex_pc = "returned"
    /\ LET ms == MatchesFrom(response, 1) IN
       /\ Len(ms) = 2
       /\ Strip(ms[1].group1) = Strip(ms[2].group1)
       /\ ms[1].group3 # ms[2].group3
    /\ Len(files) = 1

\* C7: the records are returned in document order: of two records, the one
\* whose path is first named earlier in the response comes first.
C7_DocumentOrder ==
    ex_pc = "returned" =>
        LET ms == MatchesFrom(response, 1) IN
        \A i, j \in 1..Len(files) :
            i < j => ms[FirstNaming(ms, files[i][1])].start
                       < ms[FirstNaming(ms, files[j][1])].start

C7_Witness ==
    /\ ex_pc = "returned"
    /\ Len(files) = 2
    /\ files[1][1] = PathA
    /\ files[2][1] = PathB

\* The body of a block as the grammar reads it: the text between the opener
\* line and the nearest closing fence (newline, three backticks).
OwnBody(body) ==
    LET t == body \o <<NL>> \o Fence
    IN  SubSeq(t, 1, Min({c \in 1..Len(t) : t[c] = NL /\ IsFence(t, c + 1)}) - 1)

\* A response made only of well-formed file blocks, two or more, one after
\* the other, with different paths.
BackToBackBlocks ==
    /\ Len(chunks) >= 2
    /\ \A k \in 1..Len(chunks) : chunks[k].kind = "block"
    /\ \A k, l \in 1..Len(chunks) :
          k # l => Strip(chunks[k].path) # Strip(chunks[l].path)

NewlineTrims(t) ==
    LET a == IF Len(t) > 0 /\ t[1] = NL THEN {1, 2} ELSE {1}
        z == IF Len(t) > 0 /\ t[Len(t)] = NL THEN {Len(t) - 1, Len(t)} ELSE {Len(t)}
    IN  {SubSeq(t, i, j) : i \in a, j \in z}

\* C9 (as claimed): the content of a record is the fenced body of its block
\* with at most one leading and one trailing newline removed, otherwise
\* verbatim (indentation of the first and last line included).
C9_BodyVerbatim ==
    ex_pc = "returned" =>
        LET ms == MatchesFrom(response, 1) IN
        \A i \in 1..Len(files) :
            files[i][2] \in NewlineTrims(ms[FirstNaming(ms, files[i][1])].group3)

\* C10 (as claimed): no returned record has the empty string as its path.
C10_PathNonEmpty ==
    \A i \in 1..Len(files) : files[i][1] # <<>>

\* A marker at i that a fenced block follows somewhere after it: an opening
\* fence at j and a closing newline-fence at k.
MarkerThenFencedBlock(s) ==
    \E i \in 1..Len(s) :
        /\ s[i] = MK
        /\ \E j \in (i + 1)..Len(s) :
              /\ IsFence(s, j)
              /\ \E k \in (j + 3)..Len(s) : s[k] = NL /\ IsFence(s, k + 1)

IsBlockChunk(c) == c.kind = "block"

\* A marker with no fence after it, or with a fence that is never closed.
IsMalformedChunk(c) == c.kind \in {"marker", "unclosed"}

\* C12 (as claimed): in a response made of well-formed file blocks with
\* different paths and of malformed markers, the malformed markers produce no
\* record and the records are those of the well-formed blocks alone, each
\* with its own path and body.
C12_MalformedIgnored ==
    (/\ ex_pc = "returned"
     /\ \A k \in 1..Len(chunks) : IsBlockChunk(chunks[k]) \/ IsMalformedChunk(chunks[k])
     /\ \A k, l \in 1..Len(chunks) :
           (k # l /\ IsBlockChunk(chunks[k]) /\ IsBlockChunk(chunks[l]))
               => Strip(chunks[k].path) # Strip(chunks[l].path))
    => LET blocks == SelectSeq(chunks, IsBlockChunk) IN
       /\ Len(files) = Len(blocks)
       /\ \A k \in 1..Len(blocks) :
             /\ files[k][1] = Strip(blocks[k].path)
             /\ files[k][2] = Strip(OwnBody(blocks[k].body))

\* A marker and a fenced block with a blank line, or a line of text, between
\* them.
IsSeparatedChunk(c) == c.kind \in {"gap", "text"}

\* C25 (as claimed): a marker separated from its fenced block by a blank
\* line or by other text starts no file block: a response made only of
\* such markers yields no record.
C25_SeparatedMarkerIgnored ==
    (/\ ex_pc = "returned"
     /\ \A k \in 1..Len(chunks) : IsSeparatedChunk(chunks[k]))
    => files = <<>>

\* A newline immediately followed by three backticks somewhere in t.
HasNewlineFence(t) == \E i \in 1..Len(t) : t[i] = NL /\ IsFence(t, i + 1)

\* C26: no record has a content that holds a newline immediately followed
\* by three backticks.
C26_NoFenceInContent ==
    \A k \in 1..Len(files) : ~HasNewlineFence(files[k][2])

C26_Witness ==
    /\ ex_pc = "returned"
    /\ Len(chunks) = 1
    /\ chunks[1].body = BodyNested
    /\ files = <<<<PathB, <<"x">>, LangPy>>>>

(***************************************************************************)
(* Properties of the chat loop (checked under SpecPipeline)                *)
(***************************************************************************)
\* C18 (as claimed): of the records of one extract_files pass, no two are
\* written to the same target file, and when write_files has returned each
\* written file holds the content of its own record.
C18_OneRecordPerTarget ==
    (ex_pc = "returned" /\ wr_pc = "returned") =>
        /\ \A i, j \in 1..Len(console) :
              (/\ i # j
               /\ console[i].kind \in WrittenKinds
               /\ console[j].kind \in WrittenKinds)
                  => Target(files[i][1]) # Target(files[j][1])
        /\ \A i \in 1..Len(console) :
              console[i].kind \in WrittenKinds
                  => fs_files[Target(files[i][1])] = files[i][2]

(***************************************************************************)
(* Properties of ConfigManager (checked under SpecConfig)                  *)
(***************************************************************************)
\* C19 (as claimed): a load in a new ConfigManager, made after the latest
\* save on the directory, returns the api_key, default_model and
\* festive_mode of the configuration that save was given.
C19_FreshLoadReturnsLastSaved ==
    (fresh_config # {} /\ saved_config # {}) =>
        /\ Content(fresh_config).api_key = Content(saved_config).api_key
        /\ Content(fresh_config).default_model = Content(saved_config).default_model
        /\ Content(fresh_config).festive_mode = Content(saved_config).festive_mode

\* C20: once a save has been made, config.json exists and holds the four
\* other fields of the saved configuration and no api_key field; a key given
\* in the saved configuration is the text of the .api_key file.
C20_KeyOnlyInKeyFile ==
    saved_config # {} =>
        /\ config_file # {}
        /\ "api_key" \notin DOMAIN Content(config_file)
        /\ DOMAIN Content(config_file) = ConfigFields \ {"api_key"}
        /\ \A f \in DOMAIN Content(config_file) :
              Content(config_file)[f] = Content(saved_config)[f]
        /\ Truthy(Content(saved_config).api_key) =>
              api_key_file = {Content(saved_config).api_key}

C20_Witness ==
    /\ saved_config # {}
    /\ Content(saved_config).api_key = Key2
    /\ Content(saved_config).default_model = "haiku"
    /\ api_key_file = {Key2}
    /\ Content(config_file).default_model = "haiku"

\* C21: every load on the manager returns the instance it has cached: the
\* loads made since the latest save all returned one and the same instance,
\* the cached one, and once a save was made that instance is the saved
\* configuration, whatever the disk holds.
C21_LoadReturnsCache ==
    /\ \A i, j \in 1..Len(loads) : loads[i] = loads[j]
    /\ \A i \in 1..Len(loads) : cached_config = {loads[i]}
    /\ saved_config # {} => \A i \in 1..Len(loads) : loads[i] = Content(saved_config)

C21_Witness ==
    /\ Len(loads) = 2
    /\ saved_config # {}
    /\ Content(saved_config).api_key = None
    /\ api_key_file = {Key1}
    /\ loads[2].api_key = None

\* C30 (as claimed): the key of the environment variable, which no caller
\* ever passed to save or set_api_key, is never the text of the .api_key file.
C30_EnvKeyNotPersisted ==
    api_key_file # {} => Content(api_key_file) # KeyEnv

====
